---- MODULE Spec2Model ----
(***************************************************************************)
(* dcm2niix_pyw: the option mapper (dcm2niix), the process runner          *)
(* (_call_dcm2niix, _dcm2niix) and the output relocator (the tail of       *)
(* dcm2niix).                                                              *)
(*                                                                         *)
(* Python strings are sequences of one-character strings, so that          *)
(* str.strip, str.split, str.splitlines and str.startswith are computed    *)
(* character by character.  An Optional value is <<>> (None) or <<v>>.     *)
(* A call of dcm2niix() is two steps: from the entry to the point where    *)
(* the child process is spawned (or an exception leaves the function), and *)
(* from the exit of the child process to the end of the call.  fs0 keeps   *)
(* the file system as it was when the call was made.  help_callback(True), *)
(* the eager callback of main's --print-help option, is two steps as well: *)
(* it spawns the child process itself, logs nothing, prints the standard   *)
(* output and raises typer.Exit; call stays None in it.                    *)
(***************************************************************************)
EXTENDS Integers, Sequences, FiniteSets, TLC

VARIABLES pc, call, tmp, spawns, output, written, log, dirs, files, exc, fs0,
          printed

vars == <<pc, call, tmp, spawns, output, written, log, dirs, files, exc, fs0,
          printed>>

----------------------------------------------------------------------------
(* Bounds of the model *)

\* longest list of extra pass-through arguments
MaxArgs == 2
\* largest number of lines the child process prints on standard output
MaxLines == 1

----------------------------------------------------------------------------
(* Characters and Optional values *)

SP == " "
BS == "\\"
NL == "\n"
QT == "\""

None == <<>>
Some(v) == <<v>>
IsNone(o) == o = <<>>
Val(o) == o[1]

\* all sequences over S of length at most n
SeqsUpTo(S, n) == UNION {[1..k -> S] : k \in 0..n}

\* n copies of the character ch
Rep(ch, n) == [i \in 1..n |-> ch]

----------------------------------------------------------------------------
(* Python built-ins used by the code *)

Whitespace == {SP, NL}

RECURSIVE LStrip(_, _)
LStrip(s, chars) ==
    IF s = <<>> \/ Head(s) \notin chars THEN s ELSE LStrip(Tail(s), chars)

RECURSIVE RStrip(_, _)
RStrip(s, chars) ==
    IF s = <<>> \/ s[Len(s)] \notin chars THEN s
    ELSE RStrip(SubSeq(s, 1, Len(s) - 1), chars)

\* str.strip(chars): chars is a SET of characters removed from both ends
Strip(s, chars) == RStrip(LStrip(s, chars), chars)

RECURSIVE SplitWs(_, _)
SplitWs(s, cur) ==
    IF s = <<>> THEN (IF cur = <<>> THEN <<>> ELSE <<cur>>)
    ELSE IF Head(s) \in Whitespace
         THEN (IF cur = <<>> THEN <<>> ELSE <<cur>>) \o SplitWs(Tail(s), <<>>)
         ELSE SplitWs(Tail(s), Append(cur, Head(s)))

\* str.split(): split on runs of whitespace, no empty tokens
Split(s) == SplitWs(s, <<>>)

RECURSIVE SplitNl(_, _)
SplitNl(s, cur) ==
    IF s = <<>> THEN (IF cur = <<>> THEN <<>> ELSE <<cur>>)
    ELSE IF Head(s) = NL
         THEN <<cur>> \o SplitNl(Tail(s), <<>>)
         ELSE SplitNl(Tail(s), Append(cur, Head(s)))

\* str.splitlines()
SplitLines(s) == SplitNl(s, <<>>)

\* str.startswith(prefix)
StartsWith(s, prefix) ==
    Len(s) >= Len(prefix) /\ SubSeq(s, 1, Len(prefix)) = prefix

RECURSIVE Join(_, _)
\* sep.join(parts)
Join(parts, sep) ==
    IF parts = <<>> THEN <<>>
    ELSE IF Len(parts) = 1 THEN parts[1]
    ELSE parts[1] \o sep \o Join(Tail(parts), sep)

RECURSIVE Flatten(_)
\* itertools.chain.from_iterable
Flatten(ss) == IF ss = <<>> THEN <<>> ELSE Head(ss) \o Flatten(Tail(ss))

\* str(n) for 0 <= n <= 9
Digits == <<"0", "1", "2", "3", "4", "5", "6", "7", "8", "9">>
IntToStr(n) == <<Digits[n + 1]>>

\* str.rfind("."), 1-based, 0 when there is no dot
RFindDot(name) ==
    LET S == {i \in 1..Len(name) : name[i] = "."}
    IN  IF S = {} THEN 0 ELSE CHOOSE i \in S : \A j \in S : j <= i

\* pathlib.PurePath.suffix of a file name
Suffix(name) ==
    LET i == RFindDot(name)
    IN  IF 1 < i /\ i < Len(name) THEN SubSeq(name, i, Len(name)) ELSE <<>>

\* the positions of the path separators of a path
Slashes(path) == {i \in 1..Len(path) : path[i] = "/"}

\* str.rfind("/"), 1-based, 0 when there is no separator
LastSlash(path) ==
    IF Slashes(path) = {} THEN 0
    ELSE CHOOSE i \in Slashes(path) : \A j \in Slashes(path) : j <= i

\* pathlib.PurePath.parent
Parent(path) ==
    LET i == LastSlash(path)
    IN  IF i = 0 THEN <<".">>
        ELSE IF i = 1 THEN <<"/">>
        ELSE SubSeq(path, 1, i - 1)

\* pathlib.PurePath.name
Name(path) == SubSeq(path, LastSlash(path) + 1, Len(path))

\* Path.mkdir(parents=True, exist_ok=True): the directory and all its ancestors
MkdirParents(path) ==
    {SubSeq(path, 1, i - 1) : i \in {j \in Slashes(path) : j > 1}} \cup {path}

----------------------------------------------------------------------------
(* Module-level tables and defaults *)

Format == {"NRRD", "MGH", "JSON/JNIfTI", "BJNIfTI", "NIfTI"}

format_to_string ==
    [f \in Format |->
        CASE f = "NRRD" -> <<"y">>
          [] f = "MGH" -> <<"m">>
          [] f = "JSON/JNIfTI" -> <<"j">>
          [] f = "BJNIfTI" -> <<"b">>
          [] f = "NIfTI" -> <<"n">>]

WriteBehavior == {"skip", "overwrite", "suffix"}

write_behavior_to_int ==
    [w \in WriteBehavior |->
        CASE w = "skip" -> 0
          [] w = "overwrite" -> 1
          [] w = "suffix" -> 2]

DEFAULT_COMPRESSION == 6
DEFAULT_COMPRESS == TRUE
DEFAULT_DEPTH == 5
DEFAULT_FORMAT == "NIfTI"
DEFAULT_FILENAME_FORMAT == <<"%", "f", "_", "%", "p", "_", "%", "t", "_", "%", "s">>
DEFAULT_VERBOSE_LEVEL == 0
DEFAULT_WRITE_BEHAVIOR == "overwrite"
MAX_COMMENT_LENGTH == 24
MAX_VERBOSE_LEVEL == 2

Min(a, b) == IF a < b THEN a ELSE b

\* _bool_to_yn
BoolToYn(value) == IF value THEN <<"y">> ELSE <<"n">>

----------------------------------------------------------------------------
(* The file system and the inputs of a call *)

InFolder == <<"i", "n">>
\* the caller's out_folder: a directory of its own, or the parent of out_path
OutDirA == <<"o", "u", "t">>
DestDir == <<"r", "e", "s">>
DestName == <<"r", ".", "g", "z">>
\* a directory below DestDir
SubDir == DestDir \o <<"/", "s", "u", "b">>
\* the output file paths: res/r.gz and res/sub/r.gz
DestA == DestDir \o <<"/">> \o DestName
DestB == SubDir \o <<"/">> \o DestName
\* names tempfile.mkdtemp() can return
TmpNames == {<<"t", "1">>, <<"t", "2">>}

\* entries the child process can write into its output directory
NiiA == <<"a", ".", "n", "i", "i">>
NiiB == <<"b", ".", "n", "i", "i">>
JsonA == <<"a", ".", "j", "s", "o", "n">>
OutNames == {NiiA, NiiB, JsonA}

File(d, n, data) == [dir |-> d, name |-> n, data |-> data]
\* a file that is at the destination path before the call
OldData == <<"o", "l", "d">>

ArgX == <<"-", "x">>
ArgH == <<"-", "h">>
ArgTokens == {ArgX, ArgH}
ArgLists == SeqsUpTo(ArgTokens, MaxArgs)

Comments ==
    { None,
      Some(<<>>),
      Some(<<"V", "I", "P">>),
      Some(<<"a", SP, "b">>),
      Some(Rep("c", MAX_COMMENT_LENGTH)),
      Some(Rep("c", MAX_COMMENT_LENGTH + 1)) }

Depths == {0, 9}
OutFolders == {None, Some(OutDirA), Some(DestDir), Some(SubDir)}
OutPathChoices == {None, Some(DestA), Some(DestB)}

DefaultCall ==
    [ in_folder |-> InFolder,
      args |-> <<>>,
      compress |-> DEFAULT_COMPRESS,
      compression_level |-> DEFAULT_COMPRESSION,
      adjacent |-> FALSE,
      comment |-> None,
      depth |-> DEFAULT_DEPTH,
      export_format |-> DEFAULT_FORMAT,
      filename_format |-> DEFAULT_FILENAME_FORMAT,
      ignore |-> FALSE,
      out_folder |-> None,
      verbosity |-> DEFAULT_VERBOSE_LEVEL,
      out_path |-> None,
      write_behavior |-> DEFAULT_WRITE_BEHAVIOR ]

\* calls that vary the arguments the relocation and the validation depend on
CoreCalls ==
    { [DefaultCall EXCEPT !.args = a, !.comment = c, !.depth = d,
                          !.out_folder = f, !.out_path = p] :
        a \in ArgLists, c \in Comments, d \in Depths,
        f \in OutFolders, p \in OutPathChoices }

\* calls that vary one structured option at a time
OptionCallsFor(p) ==
    LET D == [DefaultCall EXCEPT !.out_path = p]
    IN  { [D EXCEPT !.compress = b] : b \in BOOLEAN }
        \cup { [D EXCEPT !.compression_level = n] : n \in {1, 9} }
        \cup { [D EXCEPT !.adjacent = b] : b \in BOOLEAN }
        \cup { [D EXCEPT !.ignore = b] : b \in BOOLEAN }
        \cup { [D EXCEPT !.export_format = f] : f \in Format }
        \cup { [D EXCEPT !.write_behavior = w] : w \in WriteBehavior }
        \cup { [D EXCEPT !.verbosity = v] : v \in {0, 1, 2, 3, 100} }

OptionCalls == UNION {OptionCallsFor(p) : p \in OutPathChoices}

Calls == CoreCalls \cup OptionCalls

----------------------------------------------------------------------------
(* dcm2niix(): the option mapper *)

\* a test of the first extra argument only
HasHelp_FirstOnly(args) == args # <<>> /\ args[1] = ArgH

\* "-h" in args
HasHelp(args) == \E i \in 1..Len(args) : args[i] = ArgH

\* a limit that is off by one
CommentTooLong_OffByOne(comment) == Len(comment) > MAX_COMMENT_LENGTH + 1

\* length > _MAX_COMMENT_LENGTH
CommentTooLong(comment) == Len(comment) > MAX_COMMENT_LENGTH

\* the comment check raises ValueError
Invalid(c) == ~IsNone(c.comment) /\ CommentTooLong(Val(c.comment))

\* the caller's depth kept although an output file path is given
EffectiveDepth_Caller(c) == c.depth

\* depth as it is formatted into the "-d" line
EffectiveDepth(c) == IF IsNone(c.out_path) THEN c.depth ELSE 0

\* out_folder as it is formatted into the "-o" line; t is mkdtemp()'s result
EffectiveOutFolder(c, t) == IF IsNone(c.out_path) THEN c.out_folder ELSE t

\* the directories made by out_path.parent.mkdir(parents=True, exist_ok=True)
ParentDirs(c) ==
    IF IsNone(c.out_path) THEN {} ELSE MkdirParents(Parent(Val(c.out_path)))

\* tempfile.mkdtemp(), called after the parent of out_path is made: a
\* directory that did not exist; None without out_path
TmpChoices(c) ==
    IF IsNone(c.out_path) THEN {None}
    ELSE {Some(t) : t \in TmpNames \ (dirs \cup ParentDirs(c))}

\* directories made before the comment is checked
DirsBeforeCheck(c, t) ==
    IF IsNone(c.out_path) THEN {} ELSE ParentDirs(c) \cup {Val(t)}

\* the directories made by out_folder.mkdir(parents=True, exist_ok=True)
DirsAfterCheck(c, t) ==
    LET f == EffectiveOutFolder(c, t)
    IN  IF IsNone(f) THEN {} ELSE MkdirParents(Val(f))

\* f"  {flag} {value} \\"
Line(flag, value) == <<SP, SP>> \o flag \o <<SP>> \o value \o <<SP, BS>>

CommandLines(c, depth, out_folder) ==
    << Line(<<"-", "a">>, BoolToYn(c.adjacent)),
       Line(<<"-", "d">>, IntToStr(depth)),
       Line(<<"-", "e">>, format_to_string[c.export_format]),
       Line(<<"-", "f">>, c.filename_format),
       Line(<<"-", "i">>, BoolToYn(c.ignore)),
       Line(<<"-", "v">>, IntToStr(Min(c.verbosity, MAX_VERBOSE_LEVEL))),
       Line(<<"-", "z">>, BoolToYn(c.compress)),
       Line(<<"-", "w">>, IntToStr(write_behavior_to_int[c.write_behavior])) >>
    \o (IF c.compress
        THEN << <<SP, SP, "-">> \o IntToStr(c.compression_level) \o <<SP, BS>> >>
        ELSE <<>>)
    \o (IF IsNone(c.comment)
        THEN <<>>
        ELSE << <<SP, SP, "-", "c", SP, QT>> \o Val(c.comment) \o <<QT, SP, BS>> >>)
    \o (IF IsNone(out_folder)
        THEN <<>>
        ELSE << Line(<<"-", "o">>, Val(out_folder)) >>)
    \o << <<SP, SP>> \o c.in_folder \o <<SP, BS>> >>
    \o (IF c.args # <<>>
        THEN << <<SP, SP>> \o Join(c.args, <<SP, BS, NL, SP, SP>>) >>
        ELSE <<>>)

----------------------------------------------------------------------------
(* _call_dcm2niix(): the process runner *)

Rec(level, kind, text) == [level |-> level, kind |-> kind, text |-> text]

\* "\n".join(lines).strip(" \\")
LinesStr(lines) == Strip(Join(lines, <<NL>>), {SP, BS})

\* chain.from_iterable([line.strip("  \\").split() for line in lines])
CallArgs(lines) ==
    Flatten([i \in 1..Len(lines) |-> Split(Strip(lines[i], {SP, BS}))])

\* the two logger.debug calls before the process is spawned
CallDebugLog(lines) ==
    << Rec("DEBUG", "will_run", <<>>), Rec("DEBUG", "command", LinesStr(lines)) >>

WarningPrefix == <<"W", "a", "r", "n", "i", "n", "g", ":", " ">>
ConversionPrefix ==
    <<"C", "o", "n", "v", "e", "r", "s", "i", "o", "n", " ",
      "r", "e", "q", "u", "i", "r", "e", "d">>
BannerPrefix == <<"C", "h", "r", "i", "s", " ", "R", "o", "r", "d", "e", "n">>

CharsOf(s) == {s[i] : i \in 1..Len(s)}

\* line.strip("Warning: ")
StripWarning(line) == Strip(line, CharsOf(WarningPrefix))

\* one iteration of the loop over output.stdout.splitlines()
ClassifyLine(line) ==
    IF StartsWith(line, WarningPrefix)
    THEN Rec("WARNING", "stdout", StripWarning(line))
    ELSE IF StartsWith(line, ConversionPrefix) THEN Rec("SUCCESS", "stdout", line)
    ELSE IF StartsWith(line, BannerPrefix) THEN Rec("DEBUG", "stdout", line)
    ELSE Rec("INFO", "stdout", line)

\* everything _call_dcm2niix logs after the process has exited
OutputLog(o) ==
    LET ls == SplitLines(o.stdout)
    IN  (IF o.returncode # 0
         THEN << Rec("ERROR", "failed", IntToStr(o.returncode)),
                 Rec("ERROR", "stderr", o.stderr) >>
         ELSE <<>>)
        \o [i \in 1..Len(ls) |-> ClassifyLine(ls[i])]

----------------------------------------------------------------------------
(* The child process: what subprocess.run can return and leave on disk *)

StdoutLines ==
    { <<"W", "a", "r", "n", "i", "n", "g", ":", " ", "o", "k">>,
      <<"W", "a", "r", "n", "i", "n", "g", ":", " ", "n", "o">>,
      ConversionPrefix \o <<SP, "1">>,
      BannerPrefix,
      <<"F", "o", "u", "n", "d", " ", "1">> }

\* the text of standard output: every line ends with a newline
Text(ls) == Flatten([i \in 1..Len(ls) |-> Append(ls[i], NL)])

ErrText == <<"e", "r", "r">>

Outputs ==
    { [returncode |-> rc, stdout |-> Text(ls),
       stderr |-> IF rc = 0 THEN <<>> ELSE ErrText] :
        rc \in {0, 1}, ls \in SeqsUpTo(StdoutLines, MaxLines) }

\* the directory the child process writes to: the value of "-o", else the input folder
BinaryOutDir(argv, c) ==
    LET S == {i \in 1..(Len(argv) - 1) : argv[i] = <<"-", "o">>}
    IN  IF S = {} THEN c.in_folder
        ELSE argv[1 + (CHOOSE i \in S : \A j \in S : i <= j)]

\* what the child process can write: nothing when it only prints its help
WriteChoices(c) == IF HasHelp(c.args) THEN {{}} ELSE SUBSET OutNames

\* the files after the child process wrote the entries w into directory d
WriteFiles(fs, d, w) ==
    {f \in fs : ~(f.dir = d /\ f.name \in w)} \cup {File(d, n, n) : n \in w}

----------------------------------------------------------------------------
(* dcm2niix(): the output relocator *)

DotJson == <<".", "j", "s", "o", "n">>

\* a filter that keeps the ".json" sidecars
NotJson_KeepAll(name) == TRUE

\* p.suffix != ".json"
NotJson(name) == Suffix(name) # DotJson

\* out_paths: list(out_folder.iterdir()) without the ".json" entries
Candidates(fs, d) == {f \in fs : f.dir = d /\ NotJson(f.name)}

\* a threshold that is off by one
Ambiguous_OffByOne(out_paths) == Cardinality(out_paths) > 2

\* len(out_paths) > 1
Ambiguous(out_paths) == Cardinality(out_paths) > 1

\* shutil.move(src, out_path) onto a path that is not a directory
Move(fs, src, dst) ==
    {f \in fs : f # src /\ ~(f.dir = Parent(dst) /\ f.name = Name(dst))}
    \cup {File(Parent(dst), Name(dst), src.data)}

\* shutil.rmtree(d)
RmTree(fs, d) == {f \in fs : f.dir # d}

MoreThanOneWarning(t) == Rec("WARNING", "more_than_one", t)

----------------------------------------------------------------------------
(* The state machine *)

\* the file system before the call: empty, or as an earlier ambiguous
\* conversion and an older result at the destination path left it
InitFs ==
    { [dirs |-> {InFolder}, files |-> {}],
      [dirs |-> {InFolder, DestDir, <<"t", "1">>},
       files |-> { File(DestDir, DestName, OldData),
                   File(<<"t", "1">>, NiiA, NiiA),
                   File(<<"t", "1">>, NiiB, NiiB) }] }

Init ==
    /\ pc = "idle"
    /\ call = None
    /\ tmp = None
    /\ spawns = <<>>
    /\ output = None
    /\ written = {}
    /\ log = <<>>
    /\ exc = "none"
    /\ printed = <<>>
    /\ \E fs \in InitFs : dirs = fs.dirs /\ files = fs.files /\ fs0 = fs

\* dcm2niix() with "-h" among args: _call_dcm2niix("-h") up to the spawn
Dcm2niixHelp ==
    /\ pc = "idle"
    /\ \E c \in Calls :
        /\ HasHelp(c.args)
        /\ call' = Some(c)
        /\ spawns' = Append(spawns, CallArgs(<<ArgH>>))
        /\ log' = log \o CallDebugLog(<<ArgH>>)
        /\ pc' = "running"
        /\ UNCHANGED <<tmp, output, written, dirs, files, exc, fs0, printed>>

\* dcm2niix() with an oversized comment: ValueError leaves the function
Dcm2niixInvalid ==
    /\ pc = "idle"
    /\ \E c \in Calls : \E t \in TmpChoices(c) :
        /\ ~HasHelp(c.args)
        /\ Invalid(c)
        /\ call' = Some(c)
        /\ tmp' = t
        /\ dirs' = dirs \cup DirsBeforeCheck(c, t)
        /\ exc' = "ValueError"
        /\ pc' = "raised"
        /\ UNCHANGED <<spawns, output, written, log, files, fs0, printed>>

\* dcm2niix() from its entry to the spawn of the child process
Dcm2niixRun ==
    /\ pc = "idle"
    /\ \E c \in Calls : \E t \in TmpChoices(c) :
        /\ ~HasHelp(c.args)
        /\ ~Invalid(c)
        /\ call' = Some(c)
        /\ tmp' = t
        /\ dirs' = dirs \cup DirsBeforeCheck(c, t) \cup DirsAfterCheck(c, t)
        /\ LET lines == CommandLines(c, EffectiveDepth(c), EffectiveOutFolder(c, t))
           IN  /\ spawns' = Append(spawns, CallArgs(lines))
               /\ log' = log \o CallDebugLog(lines)
        /\ pc' = "running"
        /\ UNCHANGED <<output, written, files, exc, fs0, printed>>

\* the files once the child process has exited, having written w
FilesAfterRun(w) ==
    WriteFiles(files, BinaryOutDir(spawns[Len(spawns)], Val(call)), w)

\* the relocator runs: an output file path was given and "-h" was not
Relocates == ~IsNone(Val(call).out_path) /\ ~HasHelp(Val(call).args)

\* out_paths after the run
OutPathsAfterRun(w) == Candidates(FilesAfterRun(w), Val(tmp))

\* the child process exits and dcm2niix() returns without relocation
ReturnPlain ==
    /\ pc = "running"
    /\ ~Relocates
    /\ \E w \in WriteChoices(Val(call)) : \E o \in Outputs :
        /\ output' = Some(o)
        /\ written' = w
        /\ log' = log \o OutputLog(o)
        /\ files' = FilesAfterRun(w)
        /\ pc' = "done"
        /\ UNCHANGED <<call, tmp, spawns, dirs, exc, fs0, printed>>

\* the child process exits, more than one candidate: warn and return
ReturnAmbiguous ==
    /\ pc = "running"
    /\ Relocates
    /\ \E w \in WriteChoices(Val(call)) :
        /\ Ambiguous(OutPathsAfterRun(w))
        /\ \E o \in Outputs :
            /\ output' = Some(o)
            /\ written' = w
            /\ log' = log \o OutputLog(o) \o <<MoreThanOneWarning(Val(tmp))>>
            /\ files' = FilesAfterRun(w)
            /\ pc' = "done"
            /\ UNCHANGED <<call, tmp, spawns, dirs, exc, fs0, printed>>

\* the child process exits, no candidate: out_paths[0] raises IndexError
ReturnNoCandidate ==
    /\ pc = "running"
    /\ Relocates
    /\ \E w \in WriteChoices(Val(call)) :
        /\ ~Ambiguous(OutPathsAfterRun(w))
        /\ OutPathsAfterRun(w) = {}
        /\ \E o \in Outputs :
            /\ output' = Some(o)
            /\ written' = w
            /\ log' = log \o OutputLog(o)
            /\ files' = FilesAfterRun(w)
            /\ exc' = "IndexError"
            /\ pc' = "raised"
            /\ UNCHANGED <<call, tmp, spawns, dirs, fs0, printed>>

\* the child process exits: out_paths[0] is moved, the temporary directory removed
ReturnMoved ==
    /\ pc = "running"
    /\ Relocates
    /\ \E w \in WriteChoices(Val(call)) :
        /\ ~Ambiguous(OutPathsAfterRun(w))
        /\ \E src \in OutPathsAfterRun(w) : \E o \in Outputs :
            /\ files' = RmTree(Move(FilesAfterRun(w), src, Val(Val(call).out_path)),
                               Val(tmp))
            /\ dirs' = dirs \ {Val(tmp)}
            /\ output' = Some(o)
            /\ written' = w
            /\ log' = log \o OutputLog(o)
            /\ pc' = "done"
            /\ UNCHANGED <<call, tmp, spawns, exc, fs0, printed>>

\* help_callback(True) up to the spawn: _dcm2niix("-h"), nothing is logged
HelpCallback ==
    /\ pc = "idle"
    /\ spawns' = Append(spawns, <<ArgH>>)
    /\ pc' = "help_running"
    /\ UNCHANGED <<call, tmp, output, written, log, dirs, files, exc, fs0, printed>>

\* the child process exits: print(stdout), then raise typer.Exit()
HelpCallbackExits ==
    /\ pc = "help_running"
    /\ \E o \in Outputs :
        /\ output' = Some(o)
        /\ printed' = Append(printed, o.stdout)
        /\ exc' = "Exit"
        /\ pc' = "exited"
        /\ UNCHANGED <<call, tmp, spawns, written, log, dirs, files, fs0>>

Next ==
    \/ HelpCallback
    \/ HelpCallbackExits
    \/ Dcm2niixHelp
    \/ Dcm2niixInvalid
    \/ Dcm2niixRun
    \/ ReturnPlain
    \/ ReturnAmbiguous
    \/ ReturnNoCandidate
    \/ ReturnMoved

Spec == Init /\ [][Next]_vars

----------------------------------------------------------------------------
(* Vocabulary of the properties *)

TheCall == Val(call)
\* the argument vector handed to _dcm2niix
Argv == spawns[1]
\* dcm2niix() has been called
Called == ~IsNone(call)
\* the call of dcm2niix() has ended
Ended == Called /\ pc \in {"done", "raised"}
Spawned == spawns # <<>>
HelpAsked == \E i \in 1..Len(TheCall.args) : TheCall.args[i] = ArgH
WithOutPath == ~IsNone(TheCall.out_path)
Dest == Val(TheCall.out_path)
TmpDir == Val(tmp)
LongComment ==
    ~IsNone(TheCall.comment) /\ Len(Val(TheCall.comment)) > MAX_COMMENT_LENGTH

Flag(ch) == <<"-", ch>>
\* the values that follow the token flag in the argument vector
ValuesOf(flag) == {Argv[i + 1] : i \in {j \in 1..(Len(Argv) - 1) : Argv[j] = flag}}

\* the entries of the temporary directory when the child process has exited
TmpListing == IF BinaryOutDir(Argv, TheCall) = TmpDir THEN written ELSE {}
NonJsonListing == {n \in TmpListing : Suffix(n) # DotJson}

\* the files at the destination path
DestParent == Parent(Dest)
AtDest(fs) == {f \in fs : f.dir = DestParent /\ f.name = Name(Dest)}
\* directory a is directory p or one of its ancestors
IsOrHolds(a, p) ==
    \/ a = p
    \/ Len(a) < Len(p) /\ SubSeq(p, 1, Len(a)) = a /\ p[Len(a) + 1] = "/"
TmpWarnings ==
    {i \in 1..Len(log) : log[i].kind = "more_than_one" /\ log[i].level = "WARNING"}

IsStdoutWarning(r) == r.kind = "stdout" /\ r.level = "WARNING"
IsWarningLine(line) ==
    Len(line) >= 9 /\ SubSeq(line, 1, 9) = <<"W", "a", "r", "n", "i", "n", "g", ":", " ">>

----------------------------------------------------------------------------
(* Properties *)

\* C1: a call with a comment longer than 24 characters and no "-h" among the
\* extra arguments ends with ValueError and the child process is never spawned.
C1_LongCommentNeverSpawns ==
    (Called /\ ~HelpAsked /\ LongComment)
        => (pc = "raised" /\ exc = "ValueError" /\ spawns = <<>>)

C1_Witness ==
    /\ pc = "raised"
    /\ exc = "ValueError"
    /\ ~HelpAsked
    /\ Len(Val(TheCall.comment)) = MAX_COMMENT_LENGTH + 1
    /\ TheCall.args = <<ArgX>>
    /\ WithOutPath
    /\ spawns = <<>>

\* C2: without "-h", the argument vector ends with the input directory followed
\* by exactly the extra arguments, in order, each token unchanged.
C2_ExtraArgsVerbatim ==
    (Called /\ ~HelpAsked /\ Spawned)
        => LET n == Len(TheCall.args)
               m == Len(Argv)
           IN  /\ m > n
               /\ SubSeq(Argv, m - n + 1, m) = TheCall.args
               /\ Argv[m - n] = TheCall.in_folder
               /\ \A i \in 1..(m - n - 1) : Argv[i] # TheCall.in_folder

\* C3: a comment of 0 to 24 characters is emitted as "-c" followed by one token
\* equal to the comment; without a comment there is no "-c" token.
C3_CommentVerbatim ==
    (Called /\ ~HelpAsked /\ ~LongComment)
        => /\ Spawned
           /\ exc = "none" \/ exc = "IndexError"
           /\ IF IsNone(TheCall.comment)
              THEN ValuesOf(Flag("c")) = {} /\ \A i \in 1..Len(Argv) : Argv[i] # Flag("c")
              ELSE \E i \in 1..(Len(Argv) - 1) :
                      Argv[i] = Flag("c") /\ Argv[i + 1] = Val(TheCall.comment)

\* C4: with an output file path and exactly one entry of the temporary directory
\* that is not a ".json" file, the call ends with that entry at the destination
\* path and without the temporary directory.
C4_SingleOutputMoved ==
    (Ended /\ WithOutPath /\ ~HelpAsked /\ ~IsNone(output)
        /\ Cardinality(NonJsonListing) = 1)
        => /\ pc = "done"
           /\ AtDest(files) = {File(DestParent, Name(Dest), n) : n \in NonJsonListing}
           /\ TmpDir \notin dirs
           /\ \A f \in files : f.dir # TmpDir

C4_Witness ==
    /\ pc = "done"
    /\ WithOutPath /\ ~HelpAsked
    /\ written = {NiiA, JsonA}
    /\ AtDest(fs0.files) = {File(DestDir, DestName, OldData)}
    /\ AtDest(files) = {File(DestDir, DestName, NiiA)}
    /\ TmpDir \notin dirs

\* C5: with an output file path and more than one entry of the temporary
\* directory that is not a ".json" file, nothing is moved to the destination,
\* exactly one warning naming the temporary directory is logged, the call
\* returns normally and the temporary directory keeps all its entries.
C5_AmbiguousOutputKept ==
    (Ended /\ WithOutPath /\ ~HelpAsked /\ ~IsNone(output)
        /\ Cardinality(NonJsonListing) > 1)
        => /\ pc = "done"
           /\ exc = "none"
           /\ AtDest(files) = AtDest(fs0.files)
           /\ Cardinality(TmpWarnings) = 1
           /\ \A i \in TmpWarnings : log[i].text = TmpDir
           /\ TmpDir \in dirs
           /\ \A n \in written : File(TmpDir, n, n) \in files

C5_Witness ==
    /\ pc = "done"
    /\ WithOutPath /\ ~HelpAsked
    /\ written = {NiiA, NiiB, JsonA}
    /\ Cardinality(TmpWarnings) = 1
    /\ TmpDir \in dirs
    /\ AtDest(files) = {File(DestDir, DestName, OldData)}

\* C6: with "-h" anywhere among the extra arguments the child process is spawned
\* exactly once with ["-h"], and the call creates no directory, raises nothing
\* and relocates nothing.
C6_HelpOnly ==
    (Called /\ HelpAsked)
        => /\ spawns = << <<ArgH>> >>
           /\ tmp = None
           /\ exc = "none"
           /\ pc # "raised"
           /\ dirs = fs0.dirs
           /\ files = fs0.files
           /\ TmpWarnings = {}

C6_Witness ==
    /\ pc = "done"
    /\ TheCall.args = <<ArgX, ArgH>>
    /\ LongComment
    /\ WithOutPath
    /\ TheCall.out_folder = Some(OutDirA)
    /\ spawns = << <<ArgH>> >>
    /\ dirs = {InFolder}

\* the "-d" and "-o" values of a call with an output file path
C7_Emitted ==
    Spawned =>
        /\ Argv[3] = Flag("d") /\ Argv[4] = <<"0">>
        /\ ValuesOf(Flag("d")) = {<<"0">>}
        /\ ValuesOf(Flag("o")) = {TmpDir}
        /\ TmpDir \notin fs0.dirs
        /\ tmp # TheCall.out_folder
        /\ TmpDir # DestParent
        /\ ~IsNone(TheCall.out_folder)
              => \A i \in 1..Len(Argv) : Argv[i] # Val(TheCall.out_folder)

\* C7 as stated: with an output file path, "-d" is 0, "-o" is a fresh temporary
\* directory that is neither the caller's out_folder nor the parent of the
\* output file, and the caller's out_folder is never created or passed on.
C7_Original ==
    (Called /\ WithOutPath /\ ~HelpAsked)
        => /\ C7_Emitted
           /\ ~IsNone(TheCall.out_folder)
                 => (Val(TheCall.out_folder) \in dirs
                        => Val(TheCall.out_folder) \in fs0.dirs)

\* C7 amended: as stated, except that the caller's out_folder is created when
\* it is the directory that holds the output file or an ancestor of that
\* directory, which out_path.parent.mkdir(parents=True) creates.
C7_DepthZeroAndTempFolder ==
    (Called /\ WithOutPath /\ ~HelpAsked)
        => /\ C7_Emitted
           /\ (~IsNone(TheCall.out_folder)
                  /\ ~IsOrHolds(Val(TheCall.out_folder), DestParent))
                 => (Val(TheCall.out_folder) \in dirs
                        => Val(TheCall.out_folder) \in fs0.dirs)

C7_Witness ==
    /\ pc = "running"
    /\ WithOutPath /\ ~HelpAsked
    /\ TheCall.depth = 9
    /\ TheCall.out_folder = Some(OutDirA)
    /\ TheCall.out_path = Some(DestB)
    /\ OutDirA \notin dirs
    /\ fs0.dirs = {InFolder}
    /\ {DestDir, SubDir} \subseteq dirs
    /\ Argv[4] = <<"0">>
    /\ TmpDir \in ValuesOf(Flag("o"))

\* C8: every line of standard output that starts with "Warning: " is logged at
\* warning severity as the line without its first 9 characters.
C8_WarningPrefixRemoved ==
    (Called /\ ~IsNone(output))
        => LET ws == SelectSeq(SplitLines(Val(output).stdout), IsWarningLine)
               rs == SelectSeq(log, IsStdoutWarning)
           IN  /\ Len(rs) = Len(ws)
               /\ \A i \in 1..Len(ws) : rs[i].text = SubSeq(ws[i], 10, Len(ws[i]))

\* C9: when the child process exits with a non-zero code in a call with an
\* output file path, the failure is logged at error severity with the standard
\* error text, nothing is moved to the destination and the temporary directory
\* is not removed.
C9_NoRelocationAfterFailure ==
    (Ended /\ WithOutPath /\ ~HelpAsked /\ ~IsNone(output)
        /\ Val(output).returncode # 0)
        => /\ \E i \in 1..Len(log) :
                 log[i] = Rec("ERROR", "stderr", Val(output).stderr)
           /\ AtDest(files) = AtDest(fs0.files)
           /\ TmpDir \in dirs

\* C10: when a call that created a temporary directory ends, the directory no
\* longer exists or the warning that names it has been logged.
C10_TmpNeverLeftSilently ==
    (Ended /\ ~IsNone(tmp))
        => \/ TmpDir \notin dirs
           \/ \E i \in TmpWarnings : log[i].text = TmpDir

====
